---- MODULE Spec2Model ----
(***************************************************************************)
(* Model of two database engine specs of Superset:                         *)
(*   superset/db_engine_specs/cmic.py  (CmicEngineSpec)                    *)
(*   superset/db_engine_specs/apex.py  (ApexEngineSpec)                    *)
(*                                                                         *)
(* Python values are modelled as follows.                                  *)
(*   str        a sequence of characters (or of multi-character tokens)    *)
(*   str | None a record [isNull, s]                                       *)
(*   dict       a function whose DOMAIN is the set of keys                 *)
(*   list       a sequence                                                 *)
(***************************************************************************)
EXTENDS Integers, Sequences, FiniteSets, TLC

VARIABLES
    pc,          \* position of the current validate_parameters invocation
    properties,  \* argument of the current invocation
    errors,      \* the local list `errors` of validate_parameters
    posts,       \* number of requests.post calls made by the current invocation
    raised,      \* exception in flight after _do_post ("none" when it returned)
    remote,      \* what the remote API did for the current invocation
    previous,    \* the invocation completed before the current one
    uri_in,      \* parameters handed to build_sqlalchemy_uri
    uri,         \* the connection URI built from uri_in
    uri_out,     \* parameters parsed back from uri
    raw_message, \* driver error text handed to the Apex error table
    classified   \* result of matching raw_message against custom_errors

vars == << pc, properties, errors, posts, raised, remote, previous,
           uri_in, uri, uri_out, raw_message, classified >>

cmic_vars == << pc, properties, errors, posts, raised, remote, previous >>
uri_vars == << uri_in, uri, uri_out >>
apex_vars == << raw_message, classified >>

----------------------------------------------------------------------------
(* Python values *)

\* None
Null == [isNull |-> TRUE, s |-> << >>]

\* a str value
Str(s) == [isNull |-> FALSE, s |-> s]

\* the empty dict {}
EmptyDict == [k \in {} |-> Null]

\* dict.get(key, default)
Get(d, key, default) == IF key \in DOMAIN d THEN d[key] ELSE default

\* truth value of a str | None value: None and "" are false
Truthy(v) == ~v.isNull /\ Len(v.s) > 0

\* all dicts over a subset of the keys K with values in V
Dicts(K, V) == UNION {[D -> V] : D \in SUBSET K}

----------------------------------------------------------------------------
(* cmic.py: inputs *)

\* keys a submitted form may carry; "host" is not a Cmic parameter
Keys == {"username", "password", "host"}

\* ascending order of the keys under Python's str comparison
KeyOrder == << "host", "password", "username" >>

\* values of the identity fields: null, "", and a non-empty string
FieldValues == {Null, Str(<< >>), Str(<< "a" >>)}

ParametersSet ==
    {p \in Dicts(Keys, FieldValues) :
        "host" \in DOMAIN p => p["host"] = Str(<< "a" >>)}

\* properties either carries "parameters" or not
PropertiesSet ==
    {EmptyDict} \cup {[k \in {"parameters"} |-> p] : p \in ParametersSet}

----------------------------------------------------------------------------
(* cmic.py: validate_parameters, lines 123-137 *)

\* required = {"username", "password"}
required == {"username", "password"}

\* parameters = properties.get("parameters", {})
parameters_of(props) == Get(props, "parameters", EmptyDict)

\* mutant of present_of: the truth test inverted
present_of_inverted(parameters) ==
    {key \in DOMAIN parameters : ~Truthy(Get(parameters, key, Null))}

\* present = {key for key in parameters if parameters.get(key, ())}
present_of(parameters) ==
    {key \in DOMAIN parameters : Truthy(Get(parameters, key, Null))}

\* sorted(S) for a set S of keys
sorted(S) == SelectSeq(KeyOrder, LAMBDA k : k \in S)

\* missing := sorted(required - present)
missing_of(parameters) == sorted(required \ present_of(parameters))

\* ", ".join(names)
RECURSIVE join(_)
join(names) ==
    IF Len(names) = 0 THEN << >>
    ELSE IF Len(names) = 1 THEN << names[1] >>
    ELSE << names[1], ", " >> \o join(Tail(names))

\* the SupersetError appended when missing is non-empty
MissingParametersError(missing) ==
    [ message    |-> << "One or more parameters are missing: " >> \o join(missing),
      error_type |-> "CONNECTION_MISSING_PARAMETERS_ERROR",
      level      |-> "WARNING",
      extra      |-> [missing |-> missing] ]

\* errors after the missing-parameters check
errors_after_missing_check(parameters) ==
    IF missing_of(parameters) # << >>
    THEN << MissingParametersError(missing_of(parameters)) >>
    ELSE << >>

----------------------------------------------------------------------------
(* cmic.py: _do_post, lines 185-199, and the remote API *)

NoPayload == [kind |-> "none", has_error |-> FALSE, error |-> "none"]

\* JSON documents the remote API may answer with.  has_error: the Python
\* test `"error" in payload` is true.  error: the value stored under "error".
Payloads ==
    {[kind |-> "object", has_error |-> FALSE, error |-> "none"]}
    \cup {[kind |-> "object", has_error |-> TRUE, error |-> e] :
            e \in {"object_with_message", "object_without_message",
                   "string", "null"}}
    \cup {[kind |-> "array", has_error |-> TRUE, error |-> "none"]}

\* What requests.post / response.json() can do: post is "ok" or the exception
\* requests.post raises; json tells whether the response body parses as JSON.
RemoteBehaviours ==
    {[post |-> e, json |-> FALSE, payload |-> NoPayload] :
        e \in {"ConnectionError", "SSLError", "ReadTimeout"}}
    \cup {[post |-> "ok", json |-> FALSE, payload |-> NoPayload]}
    \cup {[post |-> "ok", json |-> TRUE, payload |-> p] : p \in Payloads}

NoRemote == [post |-> "none", json |-> FALSE, payload |-> NoPayload]

\* exception raised by evaluating payload["error"]["message"] and then
\* `raise SupersetException(...)`
raise_of_error(payload) ==
    IF payload.kind # "object" THEN "TypeError"
    ELSE IF payload.error = "object_with_message" THEN "SupersetException"
    ELSE IF payload.error = "object_without_message" THEN "KeyError"
    ELSE "TypeError"

\* the exception _do_post leaves with, "none" when it returns the payload
do_post(r) ==
    IF r.post # "ok" THEN r.post
    ELSE IF ~r.json THEN "JSONDecodeError"
    ELSE IF r.payload.has_error THEN raise_of_error(r.payload)
    ELSE "none"

\* isinstance(exc, cls): requests' SSLError derives from ConnectionError
IsInstance(exc, cls) ==
    \/ exc = cls
    \/ exc = "SSLError" /\ cls = "ConnectionError"

----------------------------------------------------------------------------
(* cmic.py: validate_parameters, lines 147-172 *)

AccessDeniedError(message) ==
    [ message    |-> << message >>,
      error_type |-> "CONNECTION_ACCESS_DENIED_ERROR",
      level      |-> "ERROR",
      extra      |-> [invalid |-> << "username", "password" >>] ]

\* except SupersetException
authenticate_error == AccessDeniedError("Unable to authenticate to the CIMC API.")

\* mutant of connect_error: the extra of another error
connect_error_other_extra ==
    [ AccessDeniedError("Unable to connect to the CIMC API.")
        EXCEPT !.extra = [invalid |-> << "host", "port" >>] ]

\* except requests.exceptions.ConnectionError
connect_error == AccessDeniedError("Unable to connect to the CIMC API.")

\* the exception classes the try statement has handlers for
handled == {"SupersetException", "ConnectionError"}

\* mutant of caught: a bare `except Exception`
caught_any(exc) == exc # "none"

\* whether some except clause catches exc
caught(exc) == \E cls \in handled : IsInstance(exc, cls)

\* mutant of errors_after_try: the error is inserted at the front
errors_after_try_prepend(errs, exc) ==
    IF exc = "SupersetException"
    THEN << AccessDeniedError("Unable to authenticate to the CIMC API.") >> \o errs
    ELSE IF exc \in {"ConnectionError", "SSLError"}
    THEN << AccessDeniedError("Unable to connect to the CIMC API.") >> \o errs
    ELSE errs

\* errors after the try statement, for an exception the handlers catch
errors_after_try(errs, exc) ==
    IF IsInstance(exc, "SupersetException") THEN Append(errs, authenticate_error)
    ELSE IF IsInstance(exc, "ConnectionError") THEN Append(errs, connect_error)
    ELSE errs

----------------------------------------------------------------------------
(* cmic.py: one invocation of validate_parameters, step by step *)

NoCall == << >>

\* the record kept of a completed invocation
Completed ==
    [ properties |-> properties, remote |-> remote, posts |-> posts,
      outcome |-> pc, errors |-> errors ]

finished == pc \in {"returned", "propagated"}

\* lines 123-146: the host calls validate_parameters(properties); the body of
\* the POST is built and the try statement entered whatever the parameters are
validate_parameters(props) ==
    /\ pc \in {"idle", "returned", "propagated"}
    /\ props \in PropertiesSet
    /\ properties' = props
    /\ errors' = errors_after_missing_check(parameters_of(props))
    /\ posts' = 0
    /\ raised' = "none"
    /\ remote' = NoRemote
    /\ previous' = IF finished THEN << Completed >> ELSE previous
    /\ pc' = "post"
    /\ UNCHANGED << uri_vars, apex_vars >>

\* lines 148-151, 185-199: _do_post runs against the remote API
post(r) ==
    /\ pc = "post"
    /\ r \in RemoteBehaviours
    /\ posts' = posts + 1
    /\ remote' = r
    /\ raised' = do_post(r)
    /\ pc' = "try"
    /\ UNCHANGED << properties, errors, previous, uri_vars, apex_vars >>

\* lines 153-172: the except clauses and `return errors`
finish ==
    /\ pc = "try"
    /\ errors' = IF raised # "none" /\ caught(raised)
                 THEN errors_after_try(errors, raised)
                 ELSE errors
    /\ pc' = IF raised = "none" \/ caught(raised) THEN "returned" ELSE "propagated"
    /\ UNCHANGED << properties, posts, raised, remote, previous,
                    uri_vars, apex_vars >>

Init ==
    /\ pc = "idle"
    /\ properties = EmptyDict
    /\ errors = << >>
    /\ posts = 0
    /\ raised = "none"
    /\ remote = NoRemote
    /\ previous = NoCall
    /\ uri_in = [username |-> Null, password |-> Null]
    /\ uri = << >>
    /\ uri_out = [username |-> Null, password |-> Null]
    /\ raw_message = << >>
    /\ classified = << >>

Next ==
    \/ \E props \in PropertiesSet : validate_parameters(props)
    \/ \E r \in RemoteBehaviours : post(r)
    \/ finish

Spec == Init /\ [][Next]_vars

----------------------------------------------------------------------------
(* Properties of validate_parameters *)

\* the parameters of the current invocation
cur_parameters == parameters_of(properties)

\* the value a field of the current invocation has, None when absent
cur_value(key) == Get(cur_parameters, key, Null)

\* both identity fields are supplied (neither absent, null nor empty)
both_supplied == Truthy(cur_value("username")) /\ Truthy(cur_value("password"))

\* the indices of the errors of one type in a list
of_type(errs, type) == {i \in DOMAIN errs : errs[i].error_type = type}

\* the remote API answered with a JSON object that has an "error" key
error_payload(r) ==
    r.post = "ok" /\ r.json /\ r.payload.kind = "object" /\ r.payload.has_error

\* requests.post failed with a connection-level error
connection_failure(r) == r.post \in {"ConnectionError", "SSLError"}

\* C1: validate_parameters issues the remote POST only when both identity
\* fields are present: when username or password is absent, null or empty,
\* the invocation completes without any call to _do_post.
C1_PostOnlyWhenBothSupplied ==
    (finished /\ ~both_supplied) => posts = 0

\* C2: with empty parameters exactly one error is returned, the
\* missing-parameters WARNING with missing = ["password", "username"]; with
\* only username supplied its missing is ["password"]; with both supplied no
\* missing-parameters error is returned.  In general that error is returned at
\* most once, exactly when a required field is not truthy, and its missing is
\* the sorted list of the required fields that are absent, null or empty.
C2_MissingParameters ==
    pc = "returned" =>
        LET miss == of_type(errors, "CONNECTION_MISSING_PARAMETERS_ERROR")
            lacking == {k \in {"username", "password"} : ~Truthy(cur_value(k))}
            expected == IF lacking = {"username", "password"}
                        THEN << "password", "username" >>
                        ELSE IF lacking = {"password"} THEN << "password" >>
                        ELSE IF lacking = {"username"} THEN << "username" >>
                        ELSE << >>
        IN  /\ cur_parameters = EmptyDict =>
                /\ Len(errors) = 1
                /\ errors[1].error_type = "CONNECTION_MISSING_PARAMETERS_ERROR"
                /\ errors[1].level = "WARNING"
                /\ errors[1].extra = [missing |-> << "password", "username" >>]
            /\ Cardinality(miss) <= 1
            /\ (miss # {}) <=> (lacking # {})
            /\ \A i \in miss :
                /\ errors[i].level = "WARNING"
                /\ errors[i].extra = [missing |-> expected]

\* C3: with username and password both supplied, when the remote call returns
\* a JSON body with an "error" key, whatever its value, or fails with a
\* connection error, validate_parameters returns exactly one error, the
\* access-denied ERROR with invalid = ["username", "password"], and no
\* exception escapes.
C3_RemoteFailureIsAccessDenied ==
    (finished /\ both_supplied
        /\ (error_payload(remote) \/ connection_failure(remote))) =>
        /\ pc = "returned"
        /\ Len(errors) = 1
        /\ errors[1].error_type = "CONNECTION_ACCESS_DENIED_ERROR"
        /\ errors[1].level = "ERROR"
        /\ errors[1].extra = [invalid |-> << "username", "password" >>]

\* the previous invocation had the same properties and ended on an error
\* payload that made _do_post raise SupersetException, the current one ended
\* on a connection error
payload_then_connection ==
    /\ finished
    /\ previous # NoCall
    /\ previous[1].properties = properties
    /\ error_payload(previous[1].remote)
    /\ previous[1].remote.payload.error = "object_with_message"
    /\ connection_failure(remote)

C6_OnePostFailureReported ==
    /\ posts <= 1
    /\ (finished /\ (error_payload(remote) \/ connection_failure(remote))) =>
        /\ posts = 1
        /\ pc = "returned"
        /\ of_type(errors, "CONNECTION_ACCESS_DENIED_ERROR") # {}

\* C7: an exception of the remote call other than SupersetException and
\* requests' ConnectionError (SSLError is one) is not caught: it propagates,
\* and no error list is returned (no access-denied error is produced for it
\* either).
C7_OtherExceptionsPropagate ==
    (finished /\ raised \notin {"none", "SupersetException", "ConnectionError", "SSLError"}) =>
        /\ pc = "propagated"
        /\ of_type(errors, "CONNECTION_ACCESS_DENIED_ERROR") = {}

C7_Witness ==
    /\ pc = "propagated"
    /\ raised = "ReadTimeout"
    /\ of_type(errors, "CONNECTION_MISSING_PARAMETERS_ERROR") # {}

\* C8: a returned list holds at most one missing-parameters error and at most
\* one access-denied error and nothing else, the missing-parameters error
\* first when both are there.
C8_ErrorsInOrderGenerated ==
    pc = "returned" =>
        LET miss == of_type(errors, "CONNECTION_MISSING_PARAMETERS_ERROR")
            denied == of_type(errors, "CONNECTION_ACCESS_DENIED_ERROR")
        IN  /\ Cardinality(miss) <= 1
            /\ Cardinality(denied) <= 1
            /\ miss \cup denied = DOMAIN errors
            /\ \A i \in miss : \A j \in denied : i < j

C8_Witness ==
    /\ pc = "returned"
    /\ Len(errors) = 2
    /\ errors[1].error_type = "CONNECTION_MISSING_PARAMETERS_ERROR"
    /\ errors[2].error_type = "CONNECTION_ACCESS_DENIED_ERROR"

\* the set of field names a returned list reports as missing
reported_missing(errs) ==
    UNION {{errs[i].extra.missing[n] : n \in DOMAIN errs[i].extra.missing} :
            i \in of_type(errs, "CONNECTION_MISSING_PARAMETERS_ERROR")}

\* q is p with a truthy value given to one field that was absent, null or empty
gives_one_field(p, q) ==
    \E k \in DOMAIN q :
        /\ Truthy(q[k])
        /\ ~Truthy(Get(p, k, Null))
        /\ DOMAIN q = DOMAIN p \cup {k}
        /\ \A j \in DOMAIN p \ {k} : q[j] = p[j]

\* p and q differ at most in keys outside the required set
same_required_fields(p, q) ==
    /\ DOMAIN p \cap {"username", "password"} = DOMAIN q \cap {"username", "password"}
    /\ \A k \in DOMAIN p \cap {"username", "password"} : p[k] = q[k]

\* C9: when the current parameters are the previous ones with a truthy value
\* given to one more field, the missing list reported now is a subset of the
\* one reported before; no field with a truthy value is ever reported
\* missing; keys outside the required set do not change the missing list.
C9_MissingIsMonotonic ==
    pc = "returned" =>
        /\ \A k \in DOMAIN cur_parameters :
            Truthy(cur_parameters[k]) => k \notin reported_missing(errors)
        /\ (previous # NoCall /\ previous[1].outcome = "returned") =>
            LET old == parameters_of(previous[1].properties)
            IN  /\ gives_one_field(old, cur_parameters) =>
                    reported_missing(errors) \subseteq reported_missing(previous[1].errors)
                /\ same_required_fields(old, cur_parameters) =>
                    reported_missing(errors) = reported_missing(previous[1].errors)

C9_Witness ==
    /\ pc = "returned"
    /\ previous # NoCall
    /\ previous[1].outcome = "returned"
    /\ gives_one_field(parameters_of(previous[1].properties), cur_parameters)
    /\ reported_missing(previous[1].errors) = {"password", "username"}
    /\ reported_missing(errors) = {"password"}

----------------------------------------------------------------------------
(* cmic.py: build_sqlalchemy_uri and get_parameters_from_uri, lines 92-114. *)
(* URL.create, str(URL) and make_url are those of SQLAlchemy 1.4, the      *)
(* release line Superset depends on.  A URI is a sequence of characters;   *)
(* the driver name is kept as one token.                                   *)

\* longest string drawn character by character from Alphabet
MaxLen == 2

\* characters of the strings tried: a plain one, the three that str(URL)
\* escapes, and the escape character itself
Alphabet == {"u", ":", "@", "/", "%"}

\* strings tried besides those over Alphabet
Samples ==
    { << "a", "l", "i", "c", "e" >>,
      << "s", "e", "c", "r", "e", "t" >>,
      << "%", "4", "0" >> }

Strings == UNION {[1..n -> Alphabet] : n \in 0..MaxLen} \cup Samples

\* parameters handed to build_sqlalchemy_uri: each field a str, None or absent
UriParametersSet ==
    Dicts({"username", "password"}, {Null} \cup {Str(x) : x \in Strings})

HexDigits ==
    {"0", "1", "2", "3", "4", "5", "6", "7", "8", "9",
     "A", "B", "C", "D", "E", "F", "a", "b", "c", "d", "e", "f"}

\* "%%%X" % ord(c) for the characters _rfc_1738_quote escapes
escape_of(c) ==
    IF c = ":" THEN << "%", "3", "A" >>
    ELSE IF c = "@" THEN << "%", "4", "0" >>
    ELSE << "%", "2", "F" >>

\* _rfc_1738_quote: re.sub(r"[:@/]", ...)
RECURSIVE rfc_1738_quote(_)
rfc_1738_quote(text) ==
    IF text = << >> THEN << >>
    ELSE (IF Head(text) \in {":", "@", "/"}
          THEN escape_of(Head(text))
          ELSE << Head(text) >>) \o rfc_1738_quote(Tail(text))

\* the character with the hexadecimal code h1 h2
chr_of(h1, h2) ==
    IF h1 = "3" /\ h2 \in {"A", "a"} THEN ":"
    ELSE IF h1 = "4" /\ h2 = "0" THEN "@"
    ELSE IF h1 = "2" /\ h2 \in {"F", "f"} THEN "/"
    ELSE IF h1 = "2" /\ h2 = "5" THEN "%"
    ELSE "\\x" \o h1 \o h2

\* _rfc_1738_unquote: urllib.parse.unquote, every %XX is decoded
RECURSIVE rfc_1738_unquote(_)
rfc_1738_unquote(text) ==
    IF text = << >> THEN << >>
    ELSE IF Len(text) >= 3 /\ text[1] = "%"
            /\ text[2] \in HexDigits /\ text[3] \in HexDigits
    THEN << chr_of(text[2], text[3]) >> \o rfc_1738_unquote(SubSeq(text, 4, Len(text)))
    ELSE << Head(text) >> \o rfc_1738_unquote(Tail(text))

\* f"{cls.engine}+{cls.default_driver}".rstrip("+") followed by "://"
drivername == << "mysql+mysqldb", ":", "/", "/" >>

\* str(URL.create(drivername, username=..., password=...)): the password is
\* rendered only inside the username part
render_as_string(username, password) ==
    drivername \o
    (IF username.isNull THEN << >>
     ELSE rfc_1738_quote(username.s)
          \o (IF password.isNull THEN << >>
              ELSE << ":" >> \o rfc_1738_quote(password.s))
          \o << "@" >>)

\* mutant of build_sqlalchemy_uri: the username passed as the password too
build_sqlalchemy_uri_same_field(parameters) ==
    render_as_string(Get(parameters, "username", Null),
                     Get(parameters, "username", Null))

\* lines 92-104
build_sqlalchemy_uri(parameters) ==
    render_as_string(Get(parameters, "username", Null),
                     Get(parameters, "password", Null))

\* str.strip() of make_url_safe
RECURSIVE strip(_)
strip(text) ==
    IF text = << >> THEN text
    ELSE IF Head(text) = " " THEN strip(Tail(text))
    ELSE IF text[Len(text)] = " " THEN strip(SubSeq(text, 1, Len(text) - 1))
    ELSE text

Min(S) == CHOOSE x \in S : \A y \in S : x <= y
Max(S) == CHOOSE x \in S : \A y \in S : x >= y

\* The user part of make_url's pattern applied to what follows "://":
\*   (?: (?P<username>[^:/]*) (?: :(?P<password>[^@]*) )? @ )?
\* k is the length of the username tried; the longest that lets the group
\* match wins, the group is skipped when none does.
userinfo_matches(rest, k) ==
    /\ \A i \in 1..k : rest[i] \notin {":", "/"}
    /\ k + 1 <= Len(rest)
    /\ \/ rest[k + 1] = "@"
       \/ rest[k + 1] = ":" /\ \E j \in (k + 2)..Len(rest) : rest[j] = "@"

userinfo_of(rest) ==
    LET lengths == {k \in 0..Len(rest) : userinfo_matches(rest, k)}
    IN  IF lengths = {} THEN [username |-> Null, password |-> Null]
        ELSE LET k == Max(lengths)
             IN  IF rest[k + 1] = "@"
                 THEN [username |-> Str(rfc_1738_unquote(SubSeq(rest, 1, k))),
                       password |-> Null]
                 ELSE LET at == Min({j \in (k + 2)..Len(rest) : rest[j] = "@"})
                      IN  [username |-> Str(rfc_1738_unquote(SubSeq(rest, 1, k))),
                           password |-> Str(rfc_1738_unquote(SubSeq(rest, k + 2, at - 1)))]

\* lines 106-114: url = make_url_safe(uri); username and password of the url
get_parameters_from_uri(text) ==
    LET url == strip(text)
    IN  userinfo_of(SubSeq(url, Len(drivername) + 1, Len(url)))

\* connection create: the URI is built from the submitted parameters
build_uri ==
    /\ pc = "uri_start"
    /\ uri' = build_sqlalchemy_uri(uri_in)
    /\ pc' = "uri_built"
    /\ UNCHANGED << properties, errors, posts, raised, remote, previous,
                    uri_in, uri_out, apex_vars >>

\* connection edit: the parameters are read back from the stored URI
parse_uri ==
    /\ pc = "uri_built"
    /\ uri_out' = get_parameters_from_uri(uri)
    /\ pc' = "uri_parsed"
    /\ UNCHANGED << properties, errors, posts, raised, remote, previous,
                    uri_in, uri, apex_vars >>

InitUri ==
    /\ pc = "uri_start"
    /\ properties = EmptyDict
    /\ errors = << >>
    /\ posts = 0
    /\ raised = "none"
    /\ remote = NoRemote
    /\ previous = NoCall
    /\ uri_in \in UriParametersSet
    /\ uri = << >>
    /\ uri_out = [username |-> Null, password |-> Null]
    /\ raw_message = << >>
    /\ classified = << >>

NextUri == build_uri \/ parse_uri

SpecUri == InitUri /\ [][NextUri]_vars

----------------------------------------------------------------------------
(* Properties of the URI round trip *)

\* text holds a percent escape: "%" followed by two hexadecimal digits
has_escape(text) ==
    \E i \in 1..(Len(text) - 2) :
        text[i] = "%" /\ text[i + 1] \in HexDigits /\ text[i + 2] \in HexDigits

\* C5 as claimed: get_parameters_from_uri(build_sqlalchemy_uri(P)) yields the
\* username and the password of P, whatever strings or nulls they are; a
\* password supplied without a username is not lost.
C5_RoundTrip ==
    (pc = "uri_parsed" /\ DOMAIN uri_in = {"username", "password"}) =>
        /\ uri_out.username = uri_in["username"]
        /\ uri_out.password = uri_in["password"]

\* C5 amended: the round trip reproduces username and password when the
\* username is a string and neither value holds a percent escape; when the
\* username is null it yields a null username and a null password, so a
\* password supplied without a username is lost.
C5_RoundTripWithUsername ==
    pc = "uri_parsed" =>
        LET username == Get(uri_in, "username", Null)
            password == Get(uri_in, "password", Null)
        IN  /\ (~username.isNull /\ ~has_escape(username.s) /\ ~has_escape(password.s)) =>
                /\ uri_out.username = username
                /\ uri_out.password = password
            /\ username.isNull =>
                /\ uri_out.username = Null
                /\ uri_out.password = Null

C5_Witness ==
    /\ pc = "uri_parsed"
    /\ uri_in = [username |-> Str(<< "a", "l", "i", "c", "e" >>),
                 password |-> Str(<< "s", "e", "c", "r", "e", "t" >>)]
    /\ uri = drivername \o << "a", "l", "i", "c", "e", ":",
                              "s", "e", "c", "r", "e", "t", "@" >>
    /\ uri_out = uri_in

----------------------------------------------------------------------------
(* apex.py: the error patterns, lines 30-40, and custom_errors, lines 46-65. *)
(* An error text is a sequence of tokens: the fixed phrases of the patterns  *)
(* (each without its single quotes), the single quote, the line break, and   *)
(* the pieces of a host name.                                                *)

\* longest host name, in tokens
MaxHost == 2

\* tokens a host name is drawn from: two ordinary pieces, the line break and
\* the single quote
HostAlphabet == {"db", ".", "\n", "'"}

HostStrings == UNION {[1..n -> HostAlphabet] : n \in 0..MaxHost}

\* the literal text each pattern starts with
hostname_literal == << "Unknown Apex server host ", "'" >>
host_down_literal == << "Can", "'", "t connect to Apex server on ", "'" >>
syntax_literal ==
    << "check the manual that corresponds to your Apex server version for the right syntax to use near ", "'" >>

\* literal occurs in text at position i
occurs_at(text, literal, i) ==
    /\ i + Len(literal) - 1 <= Len(text)
    /\ \A n \in DOMAIN literal : text[i + n - 1] = literal[n]

NoMatch == [matched |-> FALSE, groups |-> EmptyDict]

\* regex.search for a pattern  literal(?P<name>.*?)'  : the leftmost start,
\* then the shortest run of tokens other than the line break that is
\* followed by a single quote
search_lazy_quoted(text, literal, name) ==
    LET closes(i) ==
            {j \in (i + Len(literal))..Len(text) :
                /\ text[j] = "'"
                /\ \A n \in (i + Len(literal))..(j - 1) : text[n] # "\n"}
        starts == {i \in DOMAIN text : occurs_at(text, literal, i) /\ closes(i) # {}}
    IN  IF starts = {} THEN NoMatch
        ELSE LET i == Min(starts)
                 j == Min(closes(i))
             IN  [matched |-> TRUE,
                  groups |-> [k \in {name} |-> SubSeq(text, i + Len(literal), j - 1)]]

\* regex.search for a pattern  literal(?P<name>.*)  : the leftmost start,
\* then every token up to the next line break
search_greedy_line(text, literal, name) ==
    LET starts == {i \in DOMAIN text : occurs_at(text, literal, i)}
    IN  IF starts = {} THEN NoMatch
        ELSE LET i == Min(starts)
                 breaks == {j \in (i + Len(literal))..Len(text) : text[j] = "\n"}
                 last == IF breaks = {} THEN Len(text) ELSE Min(breaks) - 1
             IN  [matched |-> TRUE,
                  groups |-> [k \in {name} |-> SubSeq(text, i + Len(literal), last)]]

\* lines 30-32
CONNECTION_INVALID_HOSTNAME_REGEX(text) ==
    search_lazy_quoted(text, hostname_literal, "hostname")

\* lines 33-35
CONNECTION_HOST_DOWN_REGEX(text) ==
    search_lazy_quoted(text, host_down_literal, "hostname")

\* lines 37-40
SYNTAX_ERROR_REGEX(text) ==
    search_greedy_line(text, syntax_literal, "server_error")

\* regex.search(text) for the pattern of a table entry
search(pattern, text) ==
    IF pattern = "CONNECTION_INVALID_HOSTNAME_REGEX"
    THEN CONNECTION_INVALID_HOSTNAME_REGEX(text)
    ELSE IF pattern = "CONNECTION_HOST_DOWN_REGEX"
    THEN CONNECTION_HOST_DOWN_REGEX(text)
    ELSE SYNTAX_ERROR_REGEX(text)

\* mutant of custom_errors: the error types of the two host entries exchanged
custom_errors_types_exchanged ==
    << [ pattern    |-> "CONNECTION_INVALID_HOSTNAME_REGEX",
         message    |-> [before |-> "Unknown Apex server host \"",
                         name |-> "hostname", after |-> "\"."],
         error_type |-> "CONNECTION_HOST_DOWN_ERROR",
         extra      |-> [invalid |-> << "host" >>] ],
       [ pattern    |-> "CONNECTION_HOST_DOWN_REGEX",
         message    |-> [before |-> "The host \"",
                         name |-> "hostname",
                         after |-> "\" might be down and can't be reached."],
         error_type |-> "CONNECTION_INVALID_HOSTNAME_ERROR",
         extra      |-> [invalid |-> << "host", "port" >>] ],
       [ pattern    |-> "SYNTAX_ERROR_REGEX",
         message    |-> [before |-> "Please check your query for syntax errors near \"",
                         name |-> "server_error",
                         after |-> "\". Then, try running your query again."],
         error_type |-> "SYNTAX_ERROR",
         extra      |-> [invalid |-> << >>] ] >>

\* lines 46-65: the table in declaration order.  A message template is the
\* text before its one placeholder, the placeholder's name, the text after.
\* An extra of {} is written with an empty invalid list.
custom_errors ==
    << [ pattern    |-> "CONNECTION_INVALID_HOSTNAME_REGEX",
         message    |-> [before |-> "Unknown Apex server host \"",
                         name |-> "hostname", after |-> "\"."],
         error_type |-> "CONNECTION_INVALID_HOSTNAME_ERROR",
         extra      |-> [invalid |-> << "host" >>] ],
       [ pattern    |-> "CONNECTION_HOST_DOWN_REGEX",
         message    |-> [before |-> "The host \"",
                         name |-> "hostname",
                         after |-> "\" might be down and can't be reached."],
         error_type |-> "CONNECTION_HOST_DOWN_ERROR",
         extra      |-> [invalid |-> << "host", "port" >>] ],
       [ pattern    |-> "SYNTAX_ERROR_REGEX",
         message    |-> [before |-> "Please check your query for syntax errors near \"",
                         name |-> "server_error",
                         after |-> "\". Then, try running your query again."],
         error_type |-> "SYNTAX_ERROR",
         extra      |-> [invalid |-> << >>] ] >>

\* message % params: a named group that did not take part counts as ""
render(template, groups) ==
    << template.before >> \o Get(groups, template.name, << >>) \o << template.after >>

\* The classifier of the host: the table is tried in declaration order and
\* the first pattern that matches decides; << >> when none matches.
classify(text, table) ==
    LET hits == {n \in DOMAIN table : search(table[n].pattern, text).matched}
    IN  IF hits = {} THEN << >>
        ELSE LET entry == table[Min(hits)]
             IN  << [ message    |-> render(entry.message,
                                            search(entry.pattern, text).groups),
                      error_type |-> entry.error_type,
                      extra      |-> entry.extra ] >>

\* driver error texts: an optional prefix, the literal of one of the patterns
\* or none, a host name, and what follows it
RawMessages ==
    { head \o lit \o h \o tail :
        head \in {<< >>, << "(2005) " >>},
        lit \in {<< >>, hostname_literal, host_down_literal, syntax_literal},
        h \in HostStrings,
        tail \in {<< >>, << "'" >>, << "'", " (110)", "'" >>} }

\* the host hands a driver error text to the error table of ApexEngineSpec
extract_errors ==
    /\ pc = "apex_start"
    /\ classified' = classify(raw_message, custom_errors)
    /\ pc' = "apex_classified"
    /\ UNCHANGED << properties, errors, posts, raised, remote, previous,
                    uri_vars, raw_message >>

InitApex ==
    /\ pc = "apex_start"
    /\ properties = EmptyDict
    /\ errors = << >>
    /\ posts = 0
    /\ raised = "none"
    /\ remote = NoRemote
    /\ previous = NoCall
    /\ uri_in = [username |-> Null, password |-> Null]
    /\ uri = << >>
    /\ uri_out = [username |-> Null, password |-> Null]
    /\ raw_message \in RawMessages
    /\ classified = << >>

NextApex == extract_errors

SpecApex == InitApex /\ [][NextApex]_vars

----------------------------------------------------------------------------
(* Properties of the Apex error table *)

\* part occurs in whole as a run of consecutive tokens
contains(whole, part) ==
    \E i \in 1..(Len(whole) + 1) :
        /\ i + Len(part) - 1 <= Len(whole)
        /\ \A n \in DOMAIN part : whole[i + n - 1] = part[n]

\* raw_message is exactly  Unknown Apex server host 'h'
unknown_host_text(h) ==
    raw_message = << "Unknown Apex server host ", "'" >> \o h \o << "'" >>

\* the classification C10 describes for host name h
classified_invalid_hostname(h) ==
    /\ Len(classified) = 1
    /\ classified[1].error_type = "CONNECTION_INVALID_HOSTNAME_ERROR"
    /\ classified[1].extra = [invalid |-> << "host" >>]
    /\ contains(classified[1].message, h)

\* C10 as claimed: for every host name h without a single quote, the text
\* "Unknown Apex server host 'h'" is classified by the first pattern as
\* CONNECTION_INVALID_HOSTNAME_ERROR with extra {"invalid": ["host"]} and a
\* message that contains h, not as host-down or syntax error.
C10_UnknownHostClassified ==
    pc = "apex_classified" =>
        \A h \in HostStrings :
            (unknown_host_text(h) /\ ~contains(h, << "'" >>)) =>
                classified_invalid_hostname(h)

\* C10 amended: the same for every host name h with neither a single quote
\* nor a line break.
C10_UnknownHostOnOneLineClassified ==
    pc = "apex_classified" =>
        \A h \in HostStrings :
            (unknown_host_text(h) /\ ~contains(h, << "'" >>)
                /\ ~contains(h, << "\n" >>)) =>
                classified_invalid_hostname(h)

C10_Witness ==
    /\ pc = "apex_classified"
    /\ unknown_host_text(<< "db", "." >>)
    /\ classified =
        << [ message    |-> << "Unknown Apex server host \"", "db", ".", "\"." >>,
             error_type |-> "CONNECTION_INVALID_HOSTNAME_ERROR",
             extra      |-> [invalid |-> << "host" >>] ] >>

====
